---- MODULE Spec2Model ----
(***************************************************************************)
(* Model of src/multilingual_translator.py: the Flask handler index() and  *)
(* translate_message().  The language detector (langdetect.detect) and the *)
(* translation provider (deepl.Translator.translate_text) are external     *)
(* collaborators: their answers are nondeterministic.                      *)
(*                                                                         *)
(* Python values are records tagged with their type (None, str, dict), so  *)
(* that isinstance/None checks are real checks.  A str is a sequence of    *)
(* pieces; a language code is a str of one piece.  The non-ASCII literals  *)
(* of the source (flag/label texts, the error prefix, the "(original)"     *)
(* marker) are written in ASCII.                                           *)
(***************************************************************************)
EXTENDS Naturals, Sequences, FiniteSets, TLC

VARIABLES
    translator,             \* module global, line 34-42
    TARGET_LANGUAGES,       \* module global dict, line 13-19
    DEEPL_TARGETS,          \* module global dict, line 23-30
    pc,                     \* position of the single synchronous request path
    method,                 \* request.method
    input_text,             \* index(): input_text
    target_langs,           \* index(): target_langs (a list)
    translation_results,    \* index() local
    original_text,          \* index() local
    detected_lang,          \* index() local
    error_message,          \* index() local
    full_output,            \* index() local
    target_langs_selection, \* index() local
    detected_lang_base,     \* translate_message() local
    final_lang_codes,       \* translate_message(): codes the for loop has still to visit
    tm_results,             \* translate_message(): translation_results
    ret,                    \* value returned by translate_message()
    detect_result,          \* history: what detect(text) answered in this request
    detector_calls,         \* history: number of detect() calls in this request
    provider_calls,         \* history: translate_text() calls made in this request
    provider_failed,        \* history: a translate_text() call raised in this request
    prev_error              \* history: the previous request rendered an error

procvars == <<translator, TARGET_LANGUAGES, DEEPL_TARGETS>>
reqvars == <<method, input_text, target_langs>>
handlervars == <<translation_results, original_text, detected_lang, error_message,
                 full_output, target_langs_selection>>
tmvars == <<detected_lang_base, final_lang_codes, tm_results, ret>>
histvars == <<detect_result, detector_calls, provider_calls, provider_failed>>
vars == <<procvars, pc, reqvars, handlervars, tmvars, histvars, prev_error>>

(* ------------------------------ bounds --------------------------------- *)
MaxTargets == 2

(* --------------------------- Python values ----------------------------- *)
None == [type |-> "NoneType"]
Str(s) == [type |-> "str", chars |-> s]
Dict(f) == [type |-> "dict", items |-> f]
EmptyMap == [c \in {} |-> None]

SeqsUpTo(S, n) == UNION {[1..k -> S] : k \in 0..n}
Range(s) == {s[i] : i \in 1..Len(s)}

\* str.strip(): leading and trailing whitespace removed
RECURSIVE LStrip(_)
LStrip(s) == IF s # <<>> /\ Head(s) = " " THEN LStrip(Tail(s)) ELSE s
RECURSIVE RStrip(_)
RStrip(s) == IF s # <<>> /\ s[Len(s)] = " " THEN RStrip(SubSeq(s, 1, Len(s) - 1)) ELSE s
Strip(s) == RStrip(LStrip(s))

\* truthiness of a Python value
Truthy(v) ==
    CASE v.type = "NoneType" -> FALSE
      [] v.type = "str" -> v.chars # <<>>
      [] v.type = "dict" -> DOMAIN v.items # {}

\* str.startswith(prefix) for a one-piece prefix
StartsWith(v, prefix) == Len(v.chars) >= 1 /\ v.chars[1] = prefix

\* "\n".join(lines)
RECURSIVE Join(_)
Join(lines) ==
    IF lines = <<>> THEN <<>>
    ELSE IF Len(lines) = 1 THEN lines[1]
    ELSE lines[1] \o <<"\n">> \o Join(Tail(lines))

(* --------------------------- module globals ---------------------------- *)
InitTargetLanguages ==
    [c \in {"ja", "zh", "vi", "en", "ko"} |->
        CASE c = "ja" -> "JP Japanese"
          [] c = "zh" -> "CN Chinese"
          [] c = "vi" -> "VN Vietnamese"
          [] c = "en" -> "US English"
          [] c = "ko" -> "KR Korean"]

InitDeeplTargets ==
    [c \in {"ja", "zh", "vi", "en", "ko"} |->
        CASE c = "ja" -> "JA"
          [] c = "zh" -> "ZH"
          [] c = "vi" -> "VI"
          [] c = "en" -> "EN-US"
          [] c = "ko" -> "KO"]

\* dict.get(key): None when the key is absent
DictGet(d, k) == IF k \in DOMAIN d THEN Str(<<d[k]>>) ELSE None

ErrPrefix == "Error:"
ConfigError == Str(<<ErrPrefix, " DeepL API auth key is not set correctly.">>)
UnsupportedError(code) ==
    Str(<<ErrPrefix, " detected language (", code, ") is not supported.">>)
DeepLError(e) == Str(<<ErrPrefix, " problem during DeepL translation - ", e>>)
UnexpectedError(e) == Str(<<ErrPrefix, " unexpected error during translation - ", e>>)
NoTargetsError == Str(<<ErrPrefix, " no target language is selected.">>)

\* index(): OUTPUT_ORDER
OUTPUT_ORDER_Swapped == <<"en", "ja", "zh", "vi", "ko">>
OUTPUT_ORDER == <<"ja", "zh", "vi", "en", "ko">>

(* ------------------------ inputs and collaborators --------------------- *)
\* request.form.get('input_text'): missing, empty, blank, plain, with leading blank
InputTexts == {None, Str(<<>>), Str(<<" ">>), Str(<<"a">>), Str(<<" ", "a">>)}
\* form values of the target_langs checkboxes: catalog codes and a foreign one
TargetPool == {"ja", "zh", "vi", "en", "ko", "fr"}
TargetLists == SeqsUpTo(TargetPool, MaxTargets)
\* what detect() can answer: a code (langdetect reports Chinese as zh-cn), or it raises
DetectorCodes == {"ja", "zh", "vi", "en", "ko", "zh-cn", "fr"}
DetectOutcomes == {[raised |-> FALSE, code |-> c] : c \in DetectorCodes}
                    \cup {[raised |-> TRUE, code |-> "-"]}
NoDetect == [raised |-> FALSE, code |-> "-"]
\* what translate_text() can answer
ProviderTexts == {<<"t">>, <<"a">>}
ProviderErrors == {"quota"}

(* ------------------------- module initialisation ----------------------- *)
\* lines 33-42: translator stays None without a key or when the constructor raises
ModuleTranslator(key, ctor_raises) ==
    IF Truthy(key) /\ ~ctor_raises THEN [type |-> "Translator"] ELSE None

NoReturn == [results |-> None, second |-> None]

\* index() lines 116-123 and the fresh frame of translate_message()
FreshLocals ==
    /\ translation_results = None
    /\ original_text = None
    /\ detected_lang = None
    /\ error_message = None
    /\ full_output = Str(<<>>)
    /\ target_langs_selection = <<>>
    /\ detected_lang_base = "-"
    /\ final_lang_codes = {}
    /\ tm_results = EmptyMap
    /\ ret = NoReturn

FreshHistory ==
    /\ detect_result = NoDetect
    /\ detector_calls = 0
    /\ provider_calls = {}
    /\ provider_failed = FALSE

Init ==
    /\ \E key \in {None, Str(<<>>), Str(<<"k">>)}, ctor_raises \in BOOLEAN :
            translator = ModuleTranslator(key, ctor_raises)
    /\ TARGET_LANGUAGES = InitTargetLanguages
    /\ DEEPL_TARGETS = InitDeeplTargets
    /\ pc = "idle"
    /\ method = "-"
    /\ input_text = None
    /\ target_langs = <<>>
    /\ FreshLocals
    /\ FreshHistory
    /\ prev_error = FALSE

(* ------------------------------ index() -------------------------------- *)
\* lines 133-136: which branch of the POST handler runs
HandlerBranchTextFirst(text, targets) ==
    IF Truthy(text) /\ Truthy(Str(Strip(text.chars))) THEN "translate"
    ELSE IF Len(targets) = 0 THEN "no_targets"
    ELSE "skip"
HandlerBranch(text, targets) ==
    IF Len(targets) = 0 THEN "no_targets"
    ELSE IF Truthy(text) /\ Truthy(Str(Strip(text.chars))) THEN "translate"
    ELSE "skip"

\* line 55: translator is None
TranslatorUninitializedNever(t) == FALSE
TranslatorUninitialized(t) == t = None

\* GET: lines 116-123, then render_template
Get ==
    /\ pc = "idle"
    /\ method' = "GET"
    /\ pc' = "rendered"
    /\ UNCHANGED <<procvars, input_text, target_langs, handlervars, tmvars, histvars,
                   prev_error>>

\* POST: lines 116-139, up to the call of detect() inside translate_message()
Post(text, targets) ==
    /\ pc = "idle"
    /\ method' = "POST"
    /\ input_text' = text
    /\ target_langs' = targets
    /\ target_langs_selection' = targets
    /\ translation_results' = None
    /\ original_text' = None
    /\ detected_lang' = None
    /\ full_output' = Str(<<>>)
    /\ LET branch == HandlerBranch(text, targets) IN
        CASE branch = "no_targets" ->
                /\ error_message' = NoTargetsError
                /\ pc' = "rendered"
                /\ ret' = ret
          [] branch = "skip" ->
                /\ error_message' = None
                /\ pc' = "rendered"
                /\ ret' = ret
          [] branch = "translate" ->
                /\ error_message' = None
                /\ IF TranslatorUninitialized(translator)
                   THEN /\ ret' = [results |-> None, second |-> ConfigError]
                        /\ pc' = "returned"
                   ELSE /\ ret' = ret
                        /\ pc' = "detect"
    /\ UNCHANGED <<procvars, detected_lang_base, final_lang_codes, tm_results, histvars,
                   prev_error>>

(* ------------------------- translate_message() ------------------------- *)
\* lines 59-63: the detected code, 'ja' when detect() raises
DetectedLangBaseFallbackEn(outcome) == IF outcome.raised THEN "en" ELSE outcome.code
DetectedLangBase(outcome) == IF outcome.raised THEN "ja" ELSE outcome.code

\* lines 75-79: the codes the loop visits
FinalLangCodesTargetsOnly(targets, det) == Range(targets)
FinalLangCodes(targets, det) ==
    Range(targets) \cup (IF det \in DOMAIN TARGET_LANGUAGES THEN {det} ELSE {})

\* line 84
SameAsDetectedNever(target_code, det) == FALSE
SameAsDetected(target_code, det) == target_code = det

\* lines 59-79
Detect(outcome) ==
    /\ pc = "detect"
    /\ detector_calls' = detector_calls + 1
    /\ detect_result' = outcome
    /\ detected_lang_base' = DetectedLangBase(outcome)
    /\ IF detected_lang_base' \notin DOMAIN TARGET_LANGUAGES
       THEN /\ ret' = [results |-> None, second |-> UnsupportedError(detected_lang_base')]
            /\ pc' = "returned"
            /\ UNCHANGED <<final_lang_codes, tm_results>>
       ELSE /\ tm_results' = EmptyMap
            /\ final_lang_codes' = FinalLangCodes(target_langs, detected_lang_base')
            /\ pc' = "loop"
            /\ ret' = ret
    /\ UNCHANGED <<procvars, reqvars, handlervars, provider_calls, provider_failed,
                   prev_error>>

\* lines 82-86: the detected language keeps the original text
LoopOriginal ==
    /\ pc = "loop"
    /\ \E target_code \in final_lang_codes :
        /\ SameAsDetected(target_code, detected_lang_base)
        /\ tm_results' = (target_code :> input_text) @@ tm_results
        /\ final_lang_codes' = final_lang_codes \ {target_code}
    /\ UNCHANGED <<procvars, pc, reqvars, handlervars, detected_lang_base, ret, histvars,
                   prev_error>>

\* lines 89-91: a code without a DeepL target is passed over
LoopSkip ==
    /\ pc = "loop"
    /\ \E target_code \in final_lang_codes :
        /\ ~SameAsDetected(target_code, detected_lang_base)
        /\ ~Truthy(DictGet(DEEPL_TARGETS, target_code))
        /\ final_lang_codes' = final_lang_codes \ {target_code}
    /\ UNCHANGED <<procvars, pc, reqvars, handlervars, detected_lang_base, tm_results, ret,
                   histvars, prev_error>>

ProviderCall(target_code) ==
    [text |-> input_text,
     source_lang |-> DictGet(DEEPL_TARGETS, detected_lang_base),
     target_lang |-> DictGet(DEEPL_TARGETS, target_code),
     code |-> target_code]

\* lines 91-99: translate_text() answers
LoopTranslate ==
    /\ pc = "loop"
    /\ \E target_code \in final_lang_codes, answer \in ProviderTexts :
        /\ ~SameAsDetected(target_code, detected_lang_base)
        /\ Truthy(DictGet(DEEPL_TARGETS, target_code))
        /\ provider_calls' = provider_calls \cup {ProviderCall(target_code)}
        /\ tm_results' = (target_code :> Str(answer)) @@ tm_results
        /\ final_lang_codes' = final_lang_codes \ {target_code}
    /\ UNCHANGED <<procvars, pc, reqvars, handlervars, detected_lang_base, ret,
                   detect_result, detector_calls, provider_failed, prev_error>>

\* lines 91-105: translate_text() raises
LoopTranslateFailSwallowed ==
    /\ pc = "loop"
    /\ \E target_code \in final_lang_codes :
        /\ ~SameAsDetected(target_code, detected_lang_base)
        /\ Truthy(DictGet(DEEPL_TARGETS, target_code))
        /\ provider_calls' = provider_calls \cup {ProviderCall(target_code)}
        /\ provider_failed' = TRUE
        /\ final_lang_codes' = final_lang_codes \ {target_code}
    /\ UNCHANGED <<procvars, pc, reqvars, handlervars, detected_lang_base, tm_results, ret,
                   detect_result, detector_calls, prev_error>>
LoopTranslateFailDropsClient ==
    /\ pc = "loop"
    /\ \E target_code \in final_lang_codes, deepl_exc \in BOOLEAN, e \in ProviderErrors :
        /\ ~SameAsDetected(target_code, detected_lang_base)
        /\ Truthy(DictGet(DEEPL_TARGETS, target_code))
        /\ provider_calls' = provider_calls \cup {ProviderCall(target_code)}
        /\ provider_failed' = TRUE
        /\ ret' = [results |-> None,
                   second |-> IF deepl_exc THEN DeepLError(e) ELSE UnexpectedError(e)]
        /\ pc' = "returned"
        /\ translator' = None
    /\ UNCHANGED <<TARGET_LANGUAGES, DEEPL_TARGETS, reqvars, handlervars, detected_lang_base,
                   final_lang_codes, tm_results, detect_result, detector_calls, prev_error>>
LoopTranslateFail ==
    /\ pc = "loop"
    /\ \E target_code \in final_lang_codes, deepl_exc \in BOOLEAN, e \in ProviderErrors :
        /\ ~SameAsDetected(target_code, detected_lang_base)
        /\ Truthy(DictGet(DEEPL_TARGETS, target_code))
        /\ provider_calls' = provider_calls \cup {ProviderCall(target_code)}
        /\ provider_failed' = TRUE
        /\ ret' = [results |-> None,
                   second |-> IF deepl_exc THEN DeepLError(e) ELSE UnexpectedError(e)]
        /\ pc' = "returned"
    /\ UNCHANGED <<procvars, reqvars, handlervars, detected_lang_base, final_lang_codes,
                   tm_results, detect_result, detector_calls, prev_error>>

\* line 107
LoopEnd ==
    /\ pc = "loop"
    /\ final_lang_codes = {}
    /\ ret' = [results |-> Dict(tm_results), second |-> Str(<<detected_lang_base>>)]
    /\ pc' = "returned"
    /\ UNCHANGED <<procvars, reqvars, handlervars, detected_lang_base, final_lang_codes,
                   tm_results, histvars, prev_error>>

(* ------------------------ index(), after the call ---------------------- *)
\* lines 149-154: one label/text entry
OutputLine(lang_code, results, detected) ==
    <<TARGET_LANGUAGES[lang_code]>>
        \o (IF Str(<<lang_code>>) = detected THEN <<" (original):">> ELSE <<":">>)
        \o <<"\n">> \o results[lang_code].chars

\* lines 146-154: output_lines after the first n codes of OUTPUT_ORDER
RECURSIVE OutputLines(_, _, _)
OutputLines(n, results, detected) ==
    IF n = 0 THEN <<>>
    ELSE LET lang_code == OUTPUT_ORDER[n]
             before == OutputLines(n - 1, results, detected)
         IN IF lang_code \in DOMAIN results
            THEN Append(before, OutputLine(lang_code, results, detected))
            ELSE before

\* lines 146-157
FullOutput(results, detected) == Str(Join(OutputLines(Len(OUTPUT_ORDER), results, detected)))

\* lines 139-157: the call returns, the handler builds the copy block
Resume ==
    /\ pc = "returned"
    /\ translation_results' = ret.results
    /\ detected_lang' = ret.second
    /\ original_text' = input_text
    /\ IF detected_lang'.type = "str" /\ StartsWith(detected_lang', ErrPrefix)
       THEN /\ error_message' = detected_lang'
            /\ full_output' = full_output
       ELSE /\ error_message' = error_message
            /\ IF Truthy(translation_results')
               THEN full_output' = FullOutput(translation_results'.items, detected_lang')
               ELSE full_output' = full_output
    /\ pc' = "rendered"
    /\ UNCHANGED <<procvars, reqvars, target_langs_selection, tmvars, histvars, prev_error>>

\* lines 160-170: the page is rendered, the frames of the request are gone
Finish ==
    /\ pc = "rendered"
    /\ pc' = "idle"
    /\ prev_error' = (error_message # None)
    /\ method' = "-"
    /\ input_text' = None
    /\ target_langs' = <<>>
    /\ translation_results' = None
    /\ original_text' = None
    /\ detected_lang' = None
    /\ error_message' = None
    /\ full_output' = Str(<<>>)
    /\ target_langs_selection' = <<>>
    /\ detected_lang_base' = "-"
    /\ final_lang_codes' = {}
    /\ tm_results' = EmptyMap
    /\ ret' = NoReturn
    /\ detect_result' = NoDetect
    /\ detector_calls' = 0
    /\ provider_calls' = {}
    /\ provider_failed' = FALSE
    /\ UNCHANGED procvars

Next ==
    \/ Get
    \/ \E text \in InputTexts, targets \in TargetLists : Post(text, targets)
    \/ \E outcome \in DetectOutcomes : Detect(outcome)
    \/ LoopOriginal
    \/ LoopSkip
    \/ LoopTranslate
    \/ LoopTranslateFail
    \/ LoopEnd
    \/ Resume
    \/ Finish

Spec == Init /\ [][Next]_vars

(* ------------------------------- claims -------------------------------- *)
Returned == pc \in {"returned", "rendered"}
ReturnedMapping == Returned /\ ret.results.type = "dict"
ReturnedCode == ret.second.chars[1]
Blank(text) == ~(Truthy(text) /\ Truthy(Str(Strip(text.chars))))

\* C1: whenever translate_message returns a mapping, the entry of the detected code
\* is the input text itself, and no provider call of the request had the detected
\* code as its target.
C1_OriginalVerbatim ==
    ReturnedMapping =>
        /\ ReturnedCode \in DOMAIN ret.results.items
        /\ ret.results.items[ReturnedCode] = input_text
        /\ \A call \in provider_calls :
            /\ call.code # ReturnedCode
            /\ call.target_lang # DictGet(DEEPL_TARGETS, ReturnedCode)

C1_Witness ==
    /\ ReturnedMapping
    /\ ReturnedCode \in Range(target_langs)
    /\ provider_calls # {}
    /\ input_text = Str(<<" ", "a">>)

\* C2: whenever translate_message returns a mapping, its keys are exactly the
\* selected targets plus the detected code, restricted to the language catalog.
C2_KeySet ==
    ReturnedMapping =>
        DOMAIN ret.results.items =
            (Range(target_langs) \cup {ReturnedCode}) \cap {"ja", "zh", "vi", "en", "ko"}

C2_Witness ==
    /\ ReturnedMapping
    /\ "fr" \in Range(target_langs)
    /\ ReturnedCode \notin Range(target_langs)
    /\ Cardinality(DOMAIN ret.results.items) = Len(target_langs)

\* C3: once a provider call has failed, translate_message has returned None with an
\* error reason, the page shows that error with no results and an empty copy block,
\* and the request makes no further provider call.
C3_ProviderFailureAborts ==
    /\ [](provider_failed =>
            /\ Returned
            /\ ret.results = None
            /\ ret.second.type = "str" /\ StartsWith(ret.second, ErrPrefix)
            /\ pc = "rendered" =>
                /\ translation_results = None
                /\ full_output = Str(<<>>)
                /\ error_message = ret.second)
    /\ [][(provider_failed /\ provider_failed') => provider_calls' = provider_calls]_vars

C3_Witness ==
    /\ provider_failed
    /\ pc = "rendered"
    /\ DOMAIN tm_results \ {detected_lang_base} # {}

\* C4 as stated: when detect() raises, translate_message returns no mapping and
\* has called the provider for nothing.
C4_DetectFailureFails ==
    (detect_result.raised /\ pc = "returned") =>
        (ret.results = None /\ provider_calls = {})

\* C4 amended: when detect() raises, translate_message goes on with 'ja' as the
\* detected code: every provider call has source JA, and it returns either the
\* mapping with the input text under 'ja' and the code 'ja', or, after a failed
\* provider call, None with a provider error reason.
C4_DetectFailureFallsBackToJa ==
    detect_result.raised =>
        /\ detected_lang_base = "ja"
        /\ \A call \in provider_calls : call.source_lang = Str(<<"JA">>)
        /\ Returned =>
            IF provider_failed
            THEN /\ ret.results = None
                 /\ ret.second \in {DeepLError(e) : e \in ProviderErrors}
                                    \cup {UnexpectedError(e) : e \in ProviderErrors}
            ELSE /\ ret.results.type = "dict"
                 /\ ret.second = Str(<<"ja">>)
                 /\ "ja" \in DOMAIN ret.results.items
                 /\ ret.results.items["ja"] = input_text

C4_Witness ==
    /\ detect_result.raised
    /\ ReturnedMapping
    /\ provider_calls # {}

\* C5: a POST whose text is empty or blank renders an error message, and neither
\* detect() nor the provider was called.
C5_EmptyInputError ==
    (pc = "rendered" /\ method = "POST" /\ input_text.type = "str" /\ Blank(input_text)) =>
        /\ error_message.type = "str"
        /\ detector_calls = 0
        /\ provider_calls = {}

\* C6: a POST without a selected target renders the no-targets error whatever the
\* text, and neither detect() nor the provider is called.
C6_NoTargets ==
    (method = "POST" /\ Len(target_langs) = 0) =>
        /\ pc = "rendered"
        /\ error_message = NoTargetsError
        /\ translation_results = None
        /\ detector_calls = 0
        /\ provider_calls = {}

C6_Witness ==
    /\ method = "POST"
    /\ Len(target_langs) = 0
    /\ ~Blank(input_text)
    /\ translator # None

\* C7 as stated: with the translator uninitialized every POST renders the
\* configuration error, and detect() is never called.
C7_EveryRequestConfigError ==
    (translator = None /\ pc = "rendered" /\ method = "POST") =>
        (error_message = ConfigError /\ detector_calls = 0)

\* C7 amended: with the translator uninitialized, detect() and the provider are
\* never called, and every POST with a non-blank text and at least one selected
\* target renders the configuration error, with no results and an empty copy block.
C7_UninitializedShortCircuits ==
    translator = None =>
        /\ detector_calls = 0
        /\ provider_calls = {}
        /\ (pc = "rendered" /\ method = "POST" /\ Len(target_langs) > 0
                /\ ~Blank(input_text)) =>
            /\ error_message = ConfigError
            /\ translation_results = None
            /\ full_output = Str(<<>>)

C7_Witness ==
    /\ translator = None
    /\ prev_error
    /\ pc = "rendered"
    /\ error_message = ConfigError

\* C8: the copy block holds exactly one entry per code of the mapping, in the order
\* ja, zh, vi, en, ko, each entry being label, marker, newline, text, with the
\* "(original)" marker exactly on the detected code, and entries joined by one newline.
C8_CopyBlock ==
    (pc = "rendered" /\ translation_results.type = "dict") =>
        LET out == full_output.chars
            items == translation_results.items
            order == <<"ja", "zh", "vi", "en", "ko">>
            Label(c) == InitTargetLanguages[c]
            Labels == {Label(c) : c \in DOMAIN InitTargetLanguages}
            Pos(c) == {i \in 1..Len(out) : out[i] = Label(c)}
            At(c) == CHOOSE i \in Pos(c) : TRUE
            End(c) == At(c) + 2 + Len(items[c].chars)
            Idx(c) == CHOOSE i \in 1..Len(order) : order[i] = c
        IN  /\ \A c \in DOMAIN InitTargetLanguages :
                Cardinality(Pos(c)) = IF c \in DOMAIN items THEN 1 ELSE 0
            /\ out # <<>> /\ out[1] \in Labels
            /\ \A c \in DOMAIN items :
                /\ End(c) <= Len(out)
                /\ out[At(c) + 1] =
                     IF Str(<<c>>) = detected_lang THEN " (original):" ELSE ":"
                /\ out[At(c) + 2] = "\n"
                /\ SubSeq(out, At(c) + 3, End(c)) = items[c].chars
                /\ \/ End(c) = Len(out)
                   \/ /\ End(c) + 2 <= Len(out)
                      /\ out[End(c) + 1] = "\n"
                      /\ out[End(c) + 2] \in Labels
            /\ \A c, d \in DOMAIN items : Idx(c) < Idx(d) => At(c) < At(d)

C8_Witness ==
    /\ pc = "rendered"
    /\ translation_results.type = "dict"
    /\ target_langs = <<"ko", "ja">>
    /\ detected_lang = Str(<<"en">>)
    /\ Len(full_output.chars) > 0

\* C9: when detect() reports the Chinese variant zh-cn, translate_message goes on
\* with the detected code zh and does not fail as an unsupported language.
C9_VariantNormalized ==
    (~detect_result.raised /\ detect_result.code = "zh-cn") =>
        /\ detected_lang_base = "zh"
        /\ ret.second # UnsupportedError("zh-cn")

\* C10: no step of any request changes the process-wide state (catalog, provider
\* code map, translator), and between requests nothing of the last request is left,
\* so a request after a failed one starts exactly as a first request does.
C10_NoSharedStateChange ==
    /\ [][translator' = translator /\ TARGET_LANGUAGES' = TARGET_LANGUAGES
            /\ DEEPL_TARGETS' = DEEPL_TARGETS]_vars
    /\ [](pc = "idle" =>
            /\ FreshLocals /\ FreshHistory
            /\ method = "-" /\ input_text = None /\ target_langs = <<>>
            /\ TARGET_LANGUAGES = InitTargetLanguages
            /\ DEEPL_TARGETS = InitDeeplTargets)

C10_Witness ==
    /\ prev_error
    /\ pc = "rendered"
    /\ method = "POST"
    /\ error_message = None
    /\ translation_results.type = "dict"

====
